---- MODULE Spec2Model ----
(***************************************************************************)
(* CSet (samt5.c): an ordered set of int32_t values kept in a sorted,      *)
(* FILLER-padded array.  The state is a heap of arrays and one CSet struct *)
(* (Capacity, Usage, Data) per set object; there is one action per         *)
(* function of the C file.  Arrays are 0-based in C and 1-based here:      *)
(* C's Data[i] is At(d, i).                                                *)
(***************************************************************************)
EXTENDS Integers, Sequences, FiniteSets, TLC

VARIABLES sets, heap, raw, made, ub, ghost, last, calls

vars == <<sets, heap, raw, made, ub, ghost, last, calls>>

(* ------------------------------ bounds --------------------------------- *)

\* values offered to insert/remove are 1..MaxVal
MaxVal == 3
\* CSet_Init is called with Sz in 0..MaxInitCap
MaxInitCap == 3
\* a call that would make a Capacity larger than MaxCap is not made
MaxCap == 4
\* the same three bounds for the runs on enumerated proper sets
AlgMaxVal == 4
AlgMaxInitCap == 4
\* and for the runs of every operation on two sets
FullMaxVal == 2
FullMaxInitCap == 1
FullMaxCap == 4
MaxCalls == 5
DeepCalls == 6
\* a CSet_Init that would lose one more array than MaxLeaks is not made
MaxLeaks == 1

(* --------------------------- program constants ------------------------- *)

\* INT32_MIN, the value of a logically empty cell
FILLER == -2147483647 - 1
\* the null pointer
NULL == 0

SetNames == {"A", "B", "C"}
\* the argument of a call made with pSet == NULL
NoSet == "NULL"
Addr == 1..(Cardinality(SetNames) + 1 + MaxLeaks)

(* ------------------------------- heap ---------------------------------- *)
\* heap maps each live address to the array stored there.

\* C's d[i]
At(d, i) == d[i + 1]

\* d after C's d[i] = x
Put(d, i, x) == [d EXCEPT ![i + 1] = x]

\* the address malloc returns when it succeeds: the lowest free one
Fresh(hp) == CHOOSE p \in Addr : p \notin DOMAIN hp /\ \A q \in Addr : (q < p) => (q \in DOMAIN hp)

\* the outcomes of malloc(n * sizeof(int32_t)): NULL, or a new block; a request
\* of zero bytes may return either, a request of more bytes returns NULL only
\* when memory is exhausted (both outcomes are kept)
MallocOutcomes(hp) == {NULL, Fresh(hp)}

\* free(p): free(NULL) does nothing
Free(hp, p) == [q \in (DOMAIN hp) \ {p} |-> hp[q]]

\* the heap with block p holding array d
Store(hp, p, d) == [q \in (DOMAIN hp) \cup {p} |-> IF q = p THEN d ELSE hp[q]]

\* the array a set's Data points to (no array behind NULL)
Cells(st, hp, s) == IF st[s].Data = NULL THEN <<>> ELSE hp[st[s].Data]

\* n cells of FILLER
Fill(n) == [k \in 1..n |-> FILLER]

(* ---------------------------- CSet_Insert ------------------------------ *)

\* lines 106-118: the scan for the insertion index; -1 when Value is met
RECURSIVE InsertScan(_, _, _, _)
InsertScan(d, usage, v, i) ==
    IF i < usage
    THEN IF At(d, i) = v THEN -1
         ELSE IF At(d, i) < v THEN InsertScan(d, usage, v, i + 1)
         ELSE i
    ELSE i

\* lines 119-123: while (i < j) { Data[j] = Data[j-1]; j--; }
RECURSIVE ShiftRight(_, _, _)
ShiftRight(d, i, j) ==
    IF i < j THEN ShiftRight(Put(d, j, At(d, j - 1)), i, j - 1) ELSE d

\* lines 105-124: the array after the in-place insertion at index i
InsertInPlace(d, usage, v, i) == Put(ShiftRight(d, i, usage + 1), i, v)

\* lines 137-146: the first Usage+1 cells of NewData
RECURSIVE InsertMerge(_, _, _, _, _, _)
InsertMerge(d, usage, v, new, i, j) ==
    IF i < usage + 1
    THEN IF j < usage /\ At(d, j) < v
         THEN InsertMerge(d, usage, v, Append(new, At(d, j)), i + 1, j + 1)
         ELSE InsertMerge(d, usage, v, Append(new, v), i + 1, j)
    ELSE new

\* lines 128-131: the capacity the growth path doubles
GrowBase(capacity) == IF capacity <= 0 THEN 1 ELSE capacity

\* lines 135-150: NewData, of GrowBase(capacity) * 2 cells
InsertGrow(d, usage, capacity, v) ==
    LET merged == InsertMerge(d, usage, v, <<>>, 0, 0)
    IN  merged \o Fill(GrowBase(capacity) * 2 - Len(merged))

\* line 104: is the in-place path taken
HasRoom(usage, capacity) == usage + 1 < capacity

(* ---------------------------- CSet_Remove ------------------------------ *)

\* a slip: the scan stops one cell early and takes the last cell as a match
RECURSIVE RemoveScanStopsShort(_, _, _, _)
RemoveScanStopsShort(d, usage, v, i) ==
    IF i < usage - 1
    THEN IF At(d, i) = v THEN i ELSE RemoveScanStopsShort(d, usage, v, i + 1)
    ELSE i

\* lines 181-189: the index of Value, or Usage when it is not found
RECURSIVE RemoveScan(_, _, _, _)
RemoveScan(d, usage, v, i) ==
    IF i < usage
    THEN IF At(d, i) = v THEN i ELSE RemoveScan(d, usage, v, i + 1)
    ELSE i

\* lines 196-199: while (i <= Usage - 2) { Data[i] = Data[i+1]; i++; }
RECURSIVE ShiftLeft(_, _, _)
ShiftLeft(d, usage, i) ==
    IF i <= usage - 2 THEN ShiftLeft(Put(d, i, At(d, i + 1)), usage, i + 1) ELSE d

\* lines 177-205, with the call of itself at line 201: the array, the Usage
\* and the value returned
RECURSIVE RemoveRun(_, _, _)
RemoveRun(d, usage, v) ==
    LET i == RemoveScan(d, usage, v, 0)
        found == i < usage
    IN  IF found /\ i = usage - 1
        THEN [d |-> Put(d, i, FILLER), usage |-> usage - 1, found |-> TRUE]
        ELSE IF found
        THEN LET inner == RemoveRun(ShiftLeft(d, usage, i), usage - 1, v)
             IN  [d |-> Put(inner.d, inner.usage, FILLER),
                  usage |-> inner.usage, found |-> TRUE]
        ELSE [d |-> d, usage |-> usage, found |-> FALSE]

(* --------------------------- CSet_Contains ----------------------------- *)

\* lines 225-242: the binary search on Data[min .. max]
RECURSIVE ContainsLoop(_, _, _, _)
ContainsLoop(d, v, min, max) ==
    IF min <= max
    THEN LET mid == (min + max) \div 2
         IN  IF At(d, mid) = v THEN TRUE
             ELSE IF At(d, mid) > v THEN ContainsLoop(d, v, min, mid - 1)
             ELSE ContainsLoop(d, v, mid + 1, max)
    ELSE FALSE

\* lines 220-243
Contains(d, usage, v) == IF usage = 0 THEN FALSE ELSE ContainsLoop(d, v, 0, usage - 1)

(* ---------------------------- CSet_Equals ------------------------------ *)

\* lines 265-271
RECURSIVE EqualsLoop(_, _, _, _)
EqualsLoop(da, db, usage, i) ==
    IF i < usage
    THEN IF At(da, i) # At(db, i) THEN FALSE ELSE EqualsLoop(da, db, usage, i + 1)
    ELSE TRUE

\* a slip: only a longer first set is refused, so a prefix counts as equal
EqualsPrefix(da, ua, db, ub0) == IF ua > ub0 THEN FALSE ELSE EqualsLoop(da, db, ua, 0)

\* lines 258-272
Equals(da, ua, db, ub0) == IF ua # ub0 THEN FALSE ELSE EqualsLoop(da, db, ua, 0)

(* --------------------------- CSet_isSubsetOf --------------------------- *)

\* lines 293-306
RECURSIVE SubsetLoop(_, _, _, _, _, _)
SubsetLoop(da, ua, db, ub0, a, b) ==
    IF a < ua /\ b < ub0
    THEN IF At(da, a) > At(db, b)
         THEN IF b = ub0 - 1 THEN FALSE ELSE SubsetLoop(da, ua, db, ub0, a + 1, b)
         ELSE IF At(da, a) = At(db, b)
         THEN SubsetLoop(da, ua, db, ub0, a + 1, b + 1)
         ELSE FALSE
    ELSE ~(a < ua)

\* a slip: a set with as many elements as the other is refused
IsSubsetOfProperOnly(da, ua, db, ub0) ==
    IF ua >= ub0 THEN FALSE ELSE SubsetLoop(da, ua, db, ub0, 0, 0)

\* lines 286-307
IsSubsetOf(da, ua, db, ub0) == IF ua > ub0 THEN FALSE ELSE SubsetLoop(da, ua, db, ub0, 0, 0)

(* -------------------------- CSet_Intersection -------------------------- *)

\* line 333
MinCapacity(ca, cb) == IF ca > cb THEN cb ELSE ca

\* the loop of lines 338-350 with a slip: a smaller element of A moves both
\* indices on
RECURSIVE IntersectLoopSkipsB(_, _, _, _, _, _, _)
IntersectLoopSkipsB(da, ua, db, ub0, a, b, out) ==
    IF a < ua /\ b < ub0
    THEN IF At(da, a) < At(db, b) THEN IntersectLoopSkipsB(da, ua, db, ub0, a + 1, b + 1, out)
         ELSE IF At(da, a) > At(db, b) THEN IntersectLoopSkipsB(da, ua, db, ub0, a, b + 1, out)
         ELSE IntersectLoopSkipsB(da, ua, db, ub0, a + 1, b, Append(out, At(da, a)))
    ELSE out

\* lines 338-350: the values stored in data[0 .. i-1], in order
RECURSIVE IntersectLoop(_, _, _, _, _, _, _)
IntersectLoop(da, ua, db, ub0, a, b, out) ==
    IF a < ua /\ b < ub0
    THEN IF At(da, a) < At(db, b) THEN IntersectLoop(da, ua, db, ub0, a + 1, b, out)
         ELSE IF At(da, a) > At(db, b) THEN IntersectLoop(da, ua, db, ub0, a, b + 1, out)
         ELSE IntersectLoop(da, ua, db, ub0, a + 1, b, Append(out, At(da, a)))
    ELSE out

(* ------------------------- CSet_SymDifference -------------------------- *)

\* line 381
SumCapacity(ca, cb) == ca + cb

\* the loop of lines 387-416 with a slip: it stops when either set is
\* used up, as the intersection loop does
RECURSIVE SymDiffLoopStopsEarly(_, _, _, _, _, _, _)
SymDiffLoopStopsEarly(da, ua, db, ub0, a, b, out) ==
    IF a < ua /\ b < ub0
    THEN IF At(da, a) = At(db, b)
         THEN SymDiffLoopStopsEarly(da, ua, db, ub0, a + 1, b + 1, out)
         ELSE IF At(da, a) < At(db, b)
         THEN SymDiffLoopStopsEarly(da, ua, db, ub0, a + 1, b, Append(out, At(da, a)))
         ELSE SymDiffLoopStopsEarly(da, ua, db, ub0, a, b + 1, Append(out, At(db, b)))
    ELSE out

\* lines 387-416: the values stored in data[0 .. i-1], in order
RECURSIVE SymDiffLoop(_, _, _, _, _, _, _)
SymDiffLoop(da, ua, db, ub0, a, b, out) ==
    IF a < ua \/ b < ub0
    THEN IF a < ua /\ b < ub0
         THEN IF At(da, a) = At(db, b)
              THEN SymDiffLoop(da, ua, db, ub0, a + 1, b + 1, out)
              ELSE IF At(da, a) < At(db, b)
              THEN SymDiffLoop(da, ua, db, ub0, a + 1, b, Append(out, At(da, a)))
              ELSE SymDiffLoop(da, ua, db, ub0, a, b + 1, Append(out, At(db, b)))
         ELSE IF a < ua
         THEN SymDiffLoop(da, ua, db, ub0, a + 1, b, Append(out, At(da, a)))
         ELSE SymDiffLoop(da, ua, db, ub0, a, b + 1, Append(out, At(db, b)))
    ELSE out

\* lines 351-355 and 417-421: data[0 .. capacity-1] once the tail is filled
Padded(out, capacity) == out \o Fill(capacity - Len(out))

(* ------------------------------ CSet_Copy ------------------------------ *)

\* lines 461-463: the Capacity cells copied from the source
CopyCells(d, capacity) == [k \in 1..capacity |-> d[k]]


(* ------------------------------- state --------------------------------- *)
\* sets[s]  : the struct of set object s (Capacity, Usage, Data)
\* heap     : the live arrays
\* raw      : the set objects CSet_Init has not been called on yet
\* made[s]  : the Sz CSet_Init was called with on s, and what it returned
\* ub       : a store went past the end of an array (behaviour undefined)
\* ghost[s] : the values inserted into s and not removed since
\* last     : the last call: its arguments, the state before it, its result
\* calls    : the number of calls made, where a run bounds it

NoCall == [op |-> "none", s |-> "A", a |-> "A", b |-> "A", v |-> 0,
           ret |-> TRUE, failed |-> FALSE, pre |-> <<>>, preHeap |-> <<>>, preGhost |-> <<>>]

Call(op, s, a, b, v, ret, failed) ==
    [op |-> op, s |-> s, a |-> a, b |-> b, v |-> v, ret |-> ret, failed |-> failed,
     pre |-> sets, preHeap |-> heap, preGhost |-> ghost]

RawStruct == [Capacity |-> 0, Usage |-> 0, Data |-> NULL]

Init ==
    /\ sets = [s \in SetNames |-> RawStruct]
    /\ heap = <<>>
    /\ raw = SetNames
    /\ made = [s \in SetNames |-> [Sz |-> 0, ok |-> FALSE]]
    /\ ub = FALSE
    /\ ghost = [s \in SetNames |-> {}]
    /\ last = NoCall
    /\ calls = 0

\* the values a set holds: Data[0 .. Usage-1]
Elems(st, hp, s) == [k \in 1..st[s].Usage |-> Cells(st, hp, s)[k]]

\* the same as a set of values
ElemSet(st, hp, s) == {Cells(st, hp, s)[k] : k \in 1..st[s].Usage}

(* ------------------------------ actions -------------------------------- *)

\* the arrays no set points to any more: allocated, never freed
Leaked == (DOMAIN heap) \ {sets[s].Data : s \in SetNames}

\* the heap once the struct of set s is overwritten without a free: the array
\* stays allocated, and since nothing can read it its cells are not kept
Orphaned(hp, s) ==
    IF s \in raw \/ sets[s].Data = NULL THEN hp ELSE [hp EXCEPT ![sets[s].Data] = <<>>]

\* lines 58-79: *pSet may be raw or proper; the struct is overwritten and an
\* array it pointed to is not freed.  With pSet == NULL (line 60) the call
\* returns false and does nothing.
CSet_Init(s, Sz) ==
    /\ ~ub
    /\ ub' = ub
    /\ IF s = NoSet
       THEN /\ UNCHANGED <<sets, heap, raw, made, ghost>>
            /\ last' = Call("Init", s, s, s, Sz, FALSE, FALSE)
       ELSE /\ (s \notin raw /\ sets[s].Data # NULL) => (Cardinality(Leaked) < MaxLeaks)
            /\ raw' = raw \ {s}
            /\ ghost' = [ghost EXCEPT ![s] = {}]
            /\ IF Sz > 0
               THEN \E p \in MallocOutcomes(heap) :
                      IF p = NULL
                      THEN /\ sets' = [sets EXCEPT ![s] =
                                         [Capacity |-> 0, Usage |-> 0, Data |-> NULL]]
                           /\ heap' = Orphaned(heap, s)
                           /\ last' = Call("Init", s, s, s, Sz, FALSE, TRUE)
                      ELSE /\ sets' = [sets EXCEPT ![s] =
                                         [Capacity |-> Sz, Usage |-> 0, Data |-> p]]
                           /\ heap' = Store(Orphaned(heap, s), p, Fill(Sz))
                           /\ last' = Call("Init", s, s, s, Sz, TRUE, FALSE)
               ELSE /\ sets' = [sets EXCEPT ![s] =
                                  [Capacity |-> Sz, Usage |-> 0, Data |-> NULL]]
                    /\ heap' = Orphaned(heap, s)
                    /\ last' = Call("Init", s, s, s, Sz, TRUE, FALSE)
            /\ made' = [made EXCEPT ![s] = [Sz |-> Sz, ok |-> last'.ret]]

\* lines 99-156: what one call does to a set whose array is d; mallocOk says
\* whether malloc, if it is called, returns an array
InsertOutcome(d, isNull, usage, capacity, v, mallocOk) ==
    LET same == [ret |-> FALSE, failed |-> FALSE, moved |-> FALSE,
                 d |-> d, usage |-> usage, capacity |-> capacity]
    IN  IF isNull THEN same
        ELSE IF HasRoom(usage, capacity)
        THEN LET i == InsertScan(d, usage, v, 0)
             IN  IF i = -1 THEN same
                 ELSE [ret |-> TRUE, failed |-> FALSE, moved |-> FALSE,
                       d |-> InsertInPlace(d, usage, v, i),
                       usage |-> usage + 1, capacity |-> capacity]
        ELSE IF ~mallocOk THEN [same EXCEPT !.failed = TRUE]
        ELSE [ret |-> TRUE, failed |-> FALSE, moved |-> TRUE,
              d |-> InsertGrow(d, usage, capacity, v),
              usage |-> usage + 1, capacity |-> GrowBase(capacity) * 2]

\* lines 99-156; lim bounds the capacity a growth may reach
CSet_Insert(s, v, lim) ==
    /\ ~ub /\ s \notin raw
    /\ UNCHANGED <<raw, made, ub>>
    /\ LET c == sets[s]
           d == Cells(sets, heap, s)
           grows == c.Data # NULL /\ ~HasRoom(c.Usage, c.Capacity)
       IN  /\ grows => (GrowBase(c.Capacity) * 2 <= lim)
           /\ \E p \in (IF grows THEN MallocOutcomes(heap) ELSE {NULL}) :
                LET r == InsertOutcome(d, c.Data = NULL, c.Usage, c.Capacity, v, p # NULL)
                IN  /\ heap' = IF r.moved THEN Store(Free(heap, c.Data), p, r.d)
                               ELSE IF r.ret THEN Store(heap, c.Data, r.d)
                               ELSE heap
                    /\ sets' = [sets EXCEPT ![s] =
                                  [Capacity |-> r.capacity, Usage |-> r.usage,
                                   Data |-> IF r.moved THEN p ELSE c.Data]]
                    /\ ghost' = IF r.ret THEN [ghost EXCEPT ![s] = @ \cup {v}] ELSE ghost
                    /\ last' = Call("Insert", s, s, s, v, r.ret, r.failed)

\* lines 177-205
CSet_Remove(s, v) ==
    /\ ~ub /\ s \notin raw
    /\ UNCHANGED <<raw, made, ub>>
    /\ LET c == sets[s]
           r == RemoveRun(Cells(sets, heap, s), c.Usage, v)
       IN  /\ heap' = IF r.found THEN Store(heap, c.Data, r.d) ELSE heap
           /\ sets' = [sets EXCEPT ![s].Usage = r.usage]
           /\ ghost' = [ghost EXCEPT ![s] = @ \ {v}]
           /\ last' = Call("Remove", s, s, s, v, r.found, FALSE)

\* lines 220-243
CSet_Contains(s, v) ==
    /\ ~ub /\ s \notin raw
    /\ UNCHANGED <<sets, heap, raw, made, ub, ghost>>
    /\ last' = Call("Contains", s, s, s, v,
                    Contains(Cells(sets, heap, s), sets[s].Usage, v), FALSE)

\* lines 258-272
CSet_Equals(a, b) ==
    /\ ~ub /\ a \notin raw /\ b \notin raw
    /\ UNCHANGED <<sets, heap, raw, made, ub, ghost>>
    /\ last' = Call("Equals", a, a, b, 0,
                    Equals(Cells(sets, heap, a), sets[a].Usage,
                           Cells(sets, heap, b), sets[b].Usage), FALSE)

\* lines 286-307
CSet_isSubsetOf(a, b) ==
    /\ ~ub /\ a \notin raw /\ b \notin raw
    /\ UNCHANGED <<sets, heap, raw, made, ub, ghost>>
    /\ last' = Call("isSubsetOf", a, a, b, 0,
                    IsSubsetOf(Cells(sets, heap, a), sets[a].Usage,
                               Cells(sets, heap, b), sets[b].Usage), FALSE)

\* a slip: the output's Usage is cleared before the merge loop runs, so an
\* input that is also the output is read as empty
UsageReadAfterReset(o, x) == IF x = o THEN 0 ELSE sets[x].Usage

\* lines 338 and 387: the Usage of input x that the merge loop reads; the
\* output o gets its Usage only after the loop (lines 351 and 417)
UsageRead(o, x) == sets[x].Usage

\* lines 351-359 and 417-427: the output struct takes the new array; a
\* store past the end of data (more values than capacity) is undefined
Adopt(o, p, out, capacity) ==
    /\ heap' = Store(Free(heap, sets[o].Data), p, Padded(SubSeq(out, 1, MinCapacity(Len(out), capacity)), capacity))
    /\ sets' = [sets EXCEPT ![o] = [Capacity |-> capacity, Usage |-> Len(out), Data |-> p]]
    /\ ub' = (Len(out) > capacity)

\* lines 329-360
CSet_Intersection(o, a, b) ==
    /\ ~ub /\ o \notin raw /\ a \notin raw /\ b \notin raw
    /\ UNCHANGED <<raw, made>>
    /\ LET capacity == MinCapacity(sets[a].Capacity, sets[b].Capacity)
           out == IntersectLoop(Cells(sets, heap, a), UsageRead(o, a),
                                Cells(sets, heap, b), UsageRead(o, b), 0, 0, <<>>)
       IN  \E p \in MallocOutcomes(heap) :
             IF p = NULL
             THEN /\ UNCHANGED <<sets, heap, ub, ghost>>
                  /\ last' = Call("Intersection", o, a, b, 0, FALSE, TRUE)
             ELSE /\ Adopt(o, p, out, capacity)
                  /\ ghost' = [ghost EXCEPT ![o] = ghost[a] \cap ghost[b]]
                  /\ last' = Call("Intersection", o, a, b, 0, TRUE, FALSE)

\* lines 380-428; lim bounds the capacity of the result
CSet_SymDifference(o, a, b, lim) ==
    /\ ~ub /\ o \notin raw /\ a \notin raw /\ b \notin raw
    /\ UNCHANGED <<raw, made>>
    /\ LET capacity == SumCapacity(sets[a].Capacity, sets[b].Capacity)
           out == SymDiffLoop(Cells(sets, heap, a), UsageRead(o, a),
                              Cells(sets, heap, b), UsageRead(o, b), 0, 0, <<>>)
       IN  /\ capacity <= lim
           /\ \E p \in MallocOutcomes(heap) :
                IF p = NULL
                THEN /\ UNCHANGED <<sets, heap, ub, ghost>>
                     /\ last' = Call("SymDifference", o, a, b, 0, FALSE, TRUE)
                ELSE /\ Adopt(o, p, out, capacity)
                     /\ ghost' = [ghost EXCEPT ![o] =
                                    (ghost[a] \ ghost[b]) \cup (ghost[b] \ ghost[a])]
                     /\ last' = Call("SymDifference", o, a, b, 0, TRUE, FALSE)

\* a slip: the target takes the source's struct, array pointer included
CSet_CopyShallow(t, s) ==
    /\ ~ub /\ t \notin raw /\ s \notin raw
    /\ UNCHANGED <<raw, made, ub, heap>>
    /\ sets' = [sets EXCEPT ![t] = sets[s]]
    /\ ghost' = [ghost EXCEPT ![t] = ghost[s]]
    /\ last' = Call("Copy", t, s, s, 0, TRUE, FALSE)

\* lines 450-468
CSet_Copy(t, s) ==
    /\ ~ub /\ t \notin raw /\ s \notin raw
    /\ UNCHANGED <<raw, made, ub>>
    /\ IF t = s
       THEN /\ UNCHANGED <<sets, heap, ghost>>
            /\ last' = Call("Copy", t, s, s, 0, TRUE, FALSE)
       ELSE \E p \in MallocOutcomes(heap) :
              IF p = NULL
              THEN /\ UNCHANGED <<sets, heap, ghost>>
                   /\ last' = Call("Copy", t, s, s, 0, FALSE, TRUE)
              ELSE /\ heap' = Store(Free(heap, sets[t].Data), p,
                                    CopyCells(Cells(sets, heap, s), sets[s].Capacity))
                   /\ sets' = [sets EXCEPT ![t] = [Capacity |-> sets[s].Capacity,
                                                   Usage |-> sets[s].Usage, Data |-> p]]
                   /\ ghost' = [ghost EXCEPT ![t] = ghost[s]]
                   /\ last' = Call("Copy", t, s, s, 0, TRUE, FALSE)

(* --------------------------- specifications ---------------------------- *)

\* one set object, built by CSet_Init and changed by insert and remove
OneSet == {"A"}

NextSet ==
    \/ \E s \in OneSet \cup {NoSet}, Sz \in 0..MaxInitCap :
          CSet_Init(s, Sz) /\ UNCHANGED calls
    \/ \E s \in OneSet, v \in 1..MaxVal : CSet_Insert(s, v, MaxCap) /\ UNCHANGED calls
    \/ \E s \in OneSet, v \in 1..MaxVal : CSet_Remove(s, v) /\ UNCHANGED calls
    \/ \E s \in OneSet, v \in 1..MaxVal : CSet_Contains(s, v) /\ UNCHANGED calls

SpecSet == Init /\ [][NextSet]_vars

\* the same set object, called with any int32_t Value: FILLER as well
AnyValue == {FILLER} \cup (1..MaxVal)

NextAny ==
    \/ \E s \in OneSet \cup {NoSet}, Sz \in 0..MaxInitCap :
          CSet_Init(s, Sz) /\ UNCHANGED calls
    \/ \E s \in OneSet, v \in AnyValue : CSet_Insert(s, v, MaxCap) /\ UNCHANGED calls
    \/ \E s \in OneSet, v \in AnyValue : CSet_Remove(s, v) /\ UNCHANGED calls
    \/ \E s \in OneSet, v \in AnyValue : CSet_Contains(s, v) /\ UNCHANGED calls

SpecAny == Init /\ [][NextAny]_vars


\* binary operations on proper sets: A and B are any two proper sets of at
\* most AlgMaxInitCap cells over 1..AlgMaxVal, or the two sets of the worked
\* example {1,3,5,7}, {3,4,5,9}; C is an output set, empty or not.
RECURSIVE SortedSeq(_)
SortedSeq(S) ==
    IF S = {} THEN <<>>
    ELSE LET m == CHOOSE x \in S : \A y \in S : x <= y
         IN  <<m>> \o SortedSeq(S \ {m})

\* the proper sets CSet_Init(cap) and in-place inserts of ascending values give
ProperInputs ==
    {x \in {[cap |-> c, elems |-> SortedSeq(S)] :
               c \in 0..AlgMaxInitCap, S \in SUBSET (1..AlgMaxVal)} :
        Len(x.elems) = 0 \/ Len(x.elems) < x.cap}

ExampleA == [cap |-> 8, elems |-> <<1, 3, 5, 7>>]
ExampleB == [cap |-> 8, elems |-> <<3, 4, 5, 9>>]

OutputInputs == {[cap |-> 0, elems |-> <<>>], [cap |-> 2, elems |-> <<1>>]}

\* the struct, at address p, of a proper set given by capacity and elements
StructOf(x, p) == [Capacity |-> x.cap, Usage |-> Len(x.elems),
                   Data |-> IF x.cap = 0 THEN NULL ELSE p]

ArrayOf(x) == x.elems \o Fill(x.cap - Len(x.elems))

SeqRange(q) == {q[k] : k \in 1..Len(q)}

InitAlg ==
    \E x \in ProperInputs \cup {ExampleA}, y \in ProperInputs \cup {ExampleB}, z \in OutputInputs :
        /\ (x = ExampleA) <=> (y = ExampleB)
        /\ calls = 0
        /\ sets = [s \in SetNames |->
                     IF s = "A" THEN StructOf(x, 1)
                     ELSE IF s = "B" THEN StructOf(y, 2) ELSE StructOf(z, 3)]
        /\ heap = [p \in {q \in 1..3 : /\ (q = 1) => (x.cap # 0)
                                       /\ (q = 2) => (y.cap # 0)
                                       /\ (q = 3) => (z.cap # 0)} |->
                     IF p = 1 THEN ArrayOf(x) ELSE IF p = 2 THEN ArrayOf(y) ELSE ArrayOf(z)]
        /\ raw = {}
        /\ made = [s \in SetNames |->
                     [Sz |-> IF s = "A" THEN x.cap ELSE IF s = "B" THEN y.cap ELSE z.cap,
                      ok |-> TRUE]]
        /\ ub = FALSE
        /\ ghost = [s \in SetNames |->
                     SeqRange(IF s = "A" THEN x.elems ELSE IF s = "B" THEN y.elems ELSE z.elems)]
        /\ last = NoCall

AlgIn == {"A", "B"}

\* no bound on the capacity a symmetric difference may have
NoLimit == 2 * 8

\* each run applies one operation to the enumerated sets
Fresh0 == last.op = "none"

\* a call that wrote the separate output C is made once more on the same
\* inputs, now with one of the inputs as the output
Again(o) == calls = 0 /\ last.ret /\ last.s = "C" /\ o \in {last.a, last.b}

NextAlg ==
    \/ \E a \in AlgIn, b \in AlgIn : Fresh0 /\ CSet_Equals(a, b) /\ UNCHANGED calls
    \/ \E a \in AlgIn, b \in AlgIn : Fresh0 /\ CSet_isSubsetOf(a, b) /\ UNCHANGED calls
    \/ \E o \in SetNames, b \in AlgIn : Fresh0 /\ CSet_Intersection(o, "A", b) /\ UNCHANGED calls
    \/ \E o \in SetNames, b \in AlgIn :
          Fresh0 /\ CSet_SymDifference(o, "A", b, NoLimit) /\ UNCHANGED calls
    \/ \E t \in SetNames : Fresh0 /\ CSet_Copy(t, "A") /\ UNCHANGED calls
    \/ \E o \in AlgIn :
          Again(o) /\ last.op = "Intersection"
                   /\ CSet_Intersection(o, last.a, last.b) /\ calls' = 1
    \/ \E o \in AlgIn :
          Again(o) /\ last.op = "SymDifference"
                   /\ CSet_SymDifference(o, last.a, last.b, NoLimit) /\ calls' = 1

SpecAlg == InitAlg /\ [][NextAlg]_vars

\* every operation, on two set objects that start raw; an output set may be
\* one of the inputs, and the two inputs may be the same set
TwoSets == {"A", "B"}

\* a run makes at most MaxCalls calls
Counted == calls < MaxCalls /\ calls' = calls + 1

Next ==
    \/ \E s \in TwoSets \cup {NoSet}, Sz \in 0..FullMaxInitCap : Counted /\ CSet_Init(s, Sz)
    \/ \E s \in TwoSets, v \in 1..FullMaxVal : Counted /\ CSet_Insert(s, v, FullMaxCap)
    \/ \E s \in TwoSets, v \in 1..FullMaxVal : Counted /\ CSet_Remove(s, v)
    \/ \E o \in TwoSets, a \in TwoSets, b \in TwoSets : Counted /\ CSet_Intersection(o, a, b)
    \/ \E o \in TwoSets, a \in TwoSets, b \in TwoSets :
          Counted /\ CSet_SymDifference(o, a, b, FullMaxCap)
    \/ \E t \in TwoSets, s \in TwoSets : Counted /\ CSet_Copy(t, s)

Spec == Init /\ [][Next]_vars

\* the same operations, in runs of at most DeepCalls calls
CountedDeep == calls < DeepCalls /\ calls' = calls + 1

NextDeep ==
    \/ \E s \in TwoSets \cup {NoSet}, Sz \in 0..FullMaxInitCap :
          CountedDeep /\ CSet_Init(s, Sz)
    \/ \E s \in TwoSets, v \in 1..FullMaxVal : CountedDeep /\ CSet_Insert(s, v, FullMaxCap)
    \/ \E s \in TwoSets, v \in 1..FullMaxVal : CountedDeep /\ CSet_Remove(s, v)
    \/ \E o \in TwoSets, a \in TwoSets, b \in TwoSets :
          CountedDeep /\ CSet_Intersection(o, a, b)
    \/ \E o \in TwoSets, a \in TwoSets, b \in TwoSets :
          CountedDeep /\ CSet_SymDifference(o, a, b, FullMaxCap)
    \/ \E t \in TwoSets, s \in TwoSets : CountedDeep /\ CSet_Copy(t, s)

SpecDeep == Init /\ [][NextDeep]_vars

(* ----------------------------- properness ------------------------------ *)

StrictlyAscending(q) == \A i, j \in 1..Len(q) : (i < j) => (q[i] < q[j])

\* a proper set (lines 20-27): conditions 1, 2 and 4, and Data[0 : Usage-1]
\* of condition 3 lying in the array; the values may be in any order
Proper(st, hp, s) ==
    /\ (st[s].Capacity = 0) <=> (st[s].Data = NULL /\ st[s].Usage = 0)
    /\ Len(Cells(st, hp, s)) = st[s].Capacity
    /\ st[s].Usage <= st[s].Capacity
    /\ \A k \in (st[s].Usage + 1)..st[s].Capacity : Cells(st, hp, s)[k] = FILLER

\* the values are sorted, without duplicates (lines 10 and 263), and FILLER,
\* the mark of an empty cell (line 11), is not one of them
Ordered(st, hp, s) ==
    /\ StrictlyAscending(Elems(st, hp, s))
    /\ FILLER \notin ElemSet(st, hp, s)

\* what the statements below call a proper set: proper as the source defines
\* it, and sorted, without duplicates or FILLER among the values
ProperOrdered(st, hp, s) == Proper(st, hp, s) /\ Ordered(st, hp, s)

\* the set object the last call changed, before and after the call
Before(s) == Elems(last.pre, last.preHeap, s)
After(s) == Elems(sets, heap, s)

(* -------------------------------- C1 ----------------------------------- *)
\* C1: after CSet_Init and any sequence of CSet_Insert and CSet_Remove calls
\* with values other than FILLER, Data[0 .. Usage-1] is strictly ascending.
C1_SortedAfterInsertRemove ==
    \A s \in SetNames \ raw : StrictlyAscending(Elems(sets, heap, s))

(* -------------------------------- C2 ----------------------------------- *)
\* C2: CSet_Insert(v) on a (proper) set that already holds v returns false
\* and leaves Usage, Capacity and the array as they were, on the in-place
\* path and on the growth path.
C2_InsertPresentIsNoOp ==
    (/\ last.op = "Insert"
     /\ ProperOrdered(last.pre, last.preHeap, last.s)
     /\ last.v \in ElemSet(last.pre, last.preHeap, last.s))
    => (/\ last.ret = FALSE
        /\ sets[last.s].Usage = last.pre[last.s].Usage
        /\ sets[last.s].Capacity = last.pre[last.s].Capacity
        /\ Cells(sets, heap, last.s) = Cells(last.pre, last.preHeap, last.s))

(* -------------------------------- C3 ----------------------------------- *)
\* C3: after any sequence of inserts and removes, CSet_Contains(v) is true
\* exactly for the values inserted and not removed afterwards.
C3_ContainsIffInserted ==
    \A s \in SetNames \ raw : \A v \in 1..MaxVal :
        Contains(Cells(sets, heap, s), sets[s].Usage, v) <=> (v \in ghost[s])

(* -------------------------------- C4 ----------------------------------- *)
\* C4: on a set made by CSet_Init with capacity 0 or 1, an insert of a value
\* larger than every element (malloc not failing) returns true and leaves
\* the old elements followed by the new value.
C4_AscendingInsertsKept ==
    (/\ last.op = "Insert"
     /\ made[last.s].ok /\ made[last.s].Sz \in {0, 1}
     /\ ~last.failed
     /\ ProperOrdered(last.pre, last.preHeap, last.s)
     /\ \A k \in 1..Len(Before(last.s)) : Before(last.s)[k] < last.v)
    => (/\ last.ret = TRUE
        /\ sets[last.s].Usage = last.pre[last.s].Usage + 1
        /\ After(last.s) = Append(Before(last.s), last.v))

(* -------------------------------- C5 ----------------------------------- *)
\* C5: in every state reached by init, insert and remove calls,
\* CSet_Remove(v) on a set holding v returns true, lowers Usage by exactly 1,
\* keeps Capacity and every other element, and CSet_Contains(v) is false
\* afterwards.
C5_RemoveTakesOne ==
    (/\ last.op = "Remove"
     /\ last.v \in ElemSet(last.pre, last.preHeap, last.s))
    => (/\ last.ret = TRUE
        /\ sets[last.s].Usage = last.pre[last.s].Usage - 1
        /\ sets[last.s].Capacity = last.pre[last.s].Capacity
        /\ ElemSet(sets, heap, last.s) = ElemSet(last.pre, last.preHeap, last.s) \ {last.v}
        /\ ~Contains(Cells(sets, heap, last.s), sets[last.s].Usage, last.v))


(* -------------------------------- C6 ----------------------------------- *)
\* C6: for proper sets A and B, CSet_isSubsetOf(A, B) returns true exactly
\* when every element of A is an element of B.
C6_SubsetIffContained ==
    (/\ last.op = "isSubsetOf"
     /\ ProperOrdered(last.pre, last.preHeap, last.a)
     /\ ProperOrdered(last.pre, last.preHeap, last.b))
    => (last.ret <=> (ElemSet(last.pre, last.preHeap, last.a)
                        \subseteq ElemSet(last.pre, last.preHeap, last.b)))


(* -------------------------------- C7 ----------------------------------- *)
\* C7: every operation leaves every set proper: Capacity = 0 exactly when
\* Data is NULL and Usage = 0, and Data[Usage .. Capacity-1] holds FILLER,
\* in every state reached by init, insert, remove, intersection, symmetric
\* difference and copy calls.
C7_OperationsKeepProper ==
    \A s \in SetNames \ raw : Proper(sets, heap, s)

(* -------------------------------- C8 ----------------------------------- *)
Allocating == {"Insert", "Intersection", "SymDifference", "Copy"}

\* C8: when malloc fails, insert, intersection, symmetric difference and
\* copy return false and leave the receiving set as it was, and CSet_Init
\* returns false and leaves Capacity = 0, Usage = 0, Data = NULL; and these
\* operations, called on a set object, return false only when malloc fails
\* or, for insert, when the value is already in the set.
C8_FalseOnlyOnAllocationFailure ==
    /\ (last.op \in Allocating /\ last.failed)
       => (/\ last.ret = FALSE
           /\ sets[last.s] = last.pre[last.s]
           /\ Cells(sets, heap, last.s) = Cells(last.pre, last.preHeap, last.s))
    /\ (last.op = "Init" /\ last.failed)
       => (/\ last.ret = FALSE
           /\ sets[last.s] = [Capacity |-> 0, Usage |-> 0, Data |-> NULL])
    /\ (last.op \in Allocating \cup {"Init"} /\ last.s \in SetNames /\ last.ret = FALSE)
       => \/ last.failed
          \/ (last.op = "Insert" /\ last.v \in ElemSet(last.pre, last.preHeap, last.s))

(* -------------------------------- C9 ----------------------------------- *)
Common(a, b) == ElemSet(last.pre, last.preHeap, a) \cap ElemSet(last.pre, last.preHeap, b)

\* C9: after a successful CSet_Intersection(Out, A, B) on proper sets, Out
\* holds exactly the values held by both A and B, ascending, Out.Usage is
\* their number and Out.Capacity is the smaller of the two capacities.
C9_IntersectionExact ==
    (/\ last.op = "Intersection" /\ last.ret
     /\ ProperOrdered(last.pre, last.preHeap, last.a)
     /\ ProperOrdered(last.pre, last.preHeap, last.b))
    => (/\ ~ub
        /\ After(last.s) = SortedSeq(Common(last.a, last.b))
        /\ sets[last.s].Usage = Cardinality(Common(last.a, last.b))
        /\ \/ sets[last.s].Capacity = last.pre[last.a].Capacity
              /\ last.pre[last.a].Capacity <= last.pre[last.b].Capacity
           \/ sets[last.s].Capacity = last.pre[last.b].Capacity
              /\ last.pre[last.b].Capacity <= last.pre[last.a].Capacity)

\* the worked example: {1,3,5,7} and {3,4,5,9} give {3,5}, cardinality 2
C9_Witness ==
    /\ last.op = "Intersection" /\ last.ret /\ last.s = "C"
    /\ Before(last.a) = <<1, 3, 5, 7>>
    /\ Before(last.b) = <<3, 4, 5, 9>>
    /\ After("C") = <<3, 5>>
    /\ sets["C"].Usage = 2

(* -------------------------------- C10 ---------------------------------- *)
OnlyOne(a, b) ==
    (ElemSet(last.pre, last.preHeap, a) \ ElemSet(last.pre, last.preHeap, b))
        \cup (ElemSet(last.pre, last.preHeap, b) \ ElemSet(last.pre, last.preHeap, a))

\* C10: after a successful CSet_SymDifference(Out, A, B) on proper sets, Out
\* holds exactly the values held by exactly one of A and B, ascending,
\* Out.Usage is their number and Out.Capacity is A.Capacity + B.Capacity.
C10_SymDifferenceExact ==
    (/\ last.op = "SymDifference" /\ last.ret
     /\ ProperOrdered(last.pre, last.preHeap, last.a)
     /\ ProperOrdered(last.pre, last.preHeap, last.b))
    => (/\ ~ub
        /\ After(last.s) = SortedSeq(OnlyOne(last.a, last.b))
        /\ sets[last.s].Usage = Cardinality(OnlyOne(last.a, last.b))
        /\ sets[last.s].Capacity = last.pre[last.a].Capacity + last.pre[last.b].Capacity)

\* the worked example: {1,2,3} and {2,3,4} give {1,4}
C10_Witness ==
    /\ last.op = "SymDifference" /\ last.ret /\ last.s = "C"
    /\ Before(last.a) = <<1, 2, 3>>
    /\ Before(last.b) = <<2, 3, 4>>
    /\ After("C") = <<1, 4>>
    /\ sets["C"].Usage = 2

(* -------------------------------- C11 ---------------------------------- *)
\* C11: CSet_Intersection and CSet_SymDifference called with the output set
\* being one of the inputs leave in it the same Usage, the same Capacity and
\* the same cells as the same call on the same inputs left in the separate
\* output set C.
C11_AliasedOutputSame ==
    (/\ calls = 1 /\ last.ret
     /\ last.op \in {"Intersection", "SymDifference"})
    => (/\ last.s \in {last.a, last.b}
        /\ sets[last.s].Usage = last.pre["C"].Usage
        /\ sets[last.s].Capacity = last.pre["C"].Capacity
        /\ After(last.s) = Before("C")
        /\ Cells(sets, heap, last.s) = Cells(last.pre, last.preHeap, "C"))

\* {1,3,5,7} and {3,4,5,9}, intersected into the first input itself
C11_Witness ==
    /\ calls = 1 /\ last.ret /\ last.op = "Intersection"
    /\ last.s = "A" /\ last.a = "A" /\ last.b = "B"
    /\ Before("A") = <<1, 3, 5, 7>>
    /\ Before("B") = <<3, 4, 5, 9>>
    /\ After("A") = <<3, 5>>
    /\ Before("C") = <<3, 5>>

(* -------------------------------- C12 ---------------------------------- *)
\* the set objects that have been initialised
Live == SetNames \ raw

\* no two distinct sets hold the same array
NoSharedBuffer ==
    \A s \in Live, t \in Live :
        (s # t /\ sets[s].Data # NULL) => sets[s].Data # sets[t].Data

\* C12: after a successful CSet_Copy(T, S) with T distinct from S, T has S's
\* Usage, Capacity and cells, CSet_Equals(T, S) is true and T's array is not
\* S's; a CSet_Insert or CSet_Remove on one set leaves the Usage, Capacity and
\* cells of every other set unchanged; and in every reachable state no two
\* distinct sets share an array.
C12_CopyIndependent ==
    /\ (last.op = "Copy" /\ last.ret /\ last.s # last.a)
       => (/\ sets[last.s].Usage = last.pre[last.a].Usage
           /\ sets[last.s].Capacity = last.pre[last.a].Capacity
           /\ Cells(sets, heap, last.s) = Cells(last.pre, last.preHeap, last.a)
           /\ sets[last.a] = last.pre[last.a]
           /\ Cells(sets, heap, last.a) = Cells(last.pre, last.preHeap, last.a)
           /\ Equals(Cells(sets, heap, last.s), sets[last.s].Usage,
                     Cells(sets, heap, last.a), sets[last.a].Usage)
           /\ sets[last.s].Data # NULL
           /\ sets[last.s].Data # sets[last.a].Data)
    /\ (last.op \in {"Insert", "Remove"})
       => \A t \in Live \ {last.s} :
             /\ sets[t] = last.pre[t]
             /\ Cells(sets, heap, t) = Cells(last.pre, last.preHeap, t)
    /\ NoSharedBuffer

\* B holds A's cells in an array of its own (it was initialised with no
\* array), A then takes a further value and B is as it was
C12_Witness ==
    /\ last.op = "Insert" /\ last.ret /\ last.s = "A" /\ "B" \in Live
    /\ made["B"].Sz = 0
    /\ last.pre["B"].Usage = 1
    /\ last.pre["B"].Usage = last.pre["A"].Usage
    /\ last.pre["B"].Capacity = last.pre["A"].Capacity
    /\ Cells(last.pre, last.preHeap, "B") = Cells(last.pre, last.preHeap, "A")
    /\ last.pre["B"].Data # last.pre["A"].Data
    /\ sets["A"].Usage = 2
    /\ sets["B"] = last.pre["B"]
    /\ Cells(sets, heap, "B") = Cells(last.pre, last.preHeap, "B")

(* -------------------------------- C13 ---------------------------------- *)
\* C13: CSet_Remove(v) on a set that does not hold v returns false and leaves
\* the Usage, the Capacity, the array pointer and every cell as they were.
C13_RemoveAbsentChangesNothing ==
    (last.op = "Remove" /\ last.v \notin ElemSet(last.pre, last.preHeap, last.s))
    => (/\ ~last.ret
        /\ sets[last.s] = last.pre[last.s]
        /\ Cells(sets, heap, last.s) = Cells(last.pre, last.preHeap, last.s)
        /\ heap = last.preHeap)

\* 2 is asked to be removed from {1, 3}
C13_Witness ==
    /\ last.op = "Remove" /\ last.v = 2 /\ ~last.ret
    /\ Before(last.s) = <<1, 3>>
    /\ After(last.s) = <<1, 3>>

(* -------------------------------- C14 ---------------------------------- *)
\* C14: CSet_isSubsetOf(A, B) is true when A is an empty proper set and B is
\* any proper set, and CSet_isSubsetOf(A, A) is true for every proper set A.
C14_SubsetBoundary ==
    (/\ last.op = "isSubsetOf"
     /\ ProperOrdered(last.pre, last.preHeap, last.a)
     /\ ProperOrdered(last.pre, last.preHeap, last.b)
     /\ (last.pre[last.a].Usage = 0 \/ last.a = last.b))
    => last.ret

\* {1,3,5,7} is asked whether it is a subset of itself
C14_Witness ==
    /\ last.op = "isSubsetOf" /\ last.ret
    /\ last.a = "A" /\ last.b = "A"
    /\ Before("A") = <<1, 3, 5, 7>>

(* -------------------------------- C15 ---------------------------------- *)
\* C15: for proper sets A and B, CSet_Equals(A, A) is true, CSet_Equals(A, B)
\* returns what CSet_Equals(B, A) returns, and CSet_Equals(A, B) is true
\* exactly when A and B hold the same elements, whatever their capacities.
C15_EqualsIsElementEquality ==
    (/\ last.op = "Equals"
     /\ ProperOrdered(last.pre, last.preHeap, last.a)
     /\ ProperOrdered(last.pre, last.preHeap, last.b))
    => (/\ (last.a = last.b) => last.ret
        /\ last.ret = Equals(Cells(last.pre, last.preHeap, last.b), last.pre[last.b].Usage,
                             Cells(last.pre, last.preHeap, last.a), last.pre[last.a].Usage)
        /\ last.ret <=> (ElemSet(last.pre, last.preHeap, last.a)
                           = ElemSet(last.pre, last.preHeap, last.b)))

\* {1, 2} in three cells and {1, 2} in four cells are equal
C15_Witness ==
    /\ last.op = "Equals" /\ last.ret
    /\ last.a = "A" /\ last.b = "B"
    /\ Before("A") = <<1, 2>> /\ Before("B") = <<1, 2>>
    /\ sets["A"].Capacity = 3 /\ sets["B"].Capacity = 4

(* -------------------------------- C16 ---------------------------------- *)
\* C16: a CSet_Insert(v) that returns true on a proper set not holding v, on
\* the in-place path or the growth path and wherever v falls among the
\* elements, leaves exactly the old elements and v, and Usage one higher.
C16_InsertAddsExactlyOne ==
    (/\ last.op = "Insert" /\ last.ret
     /\ ProperOrdered(last.pre, last.preHeap, last.s)
     /\ last.v \notin ElemSet(last.pre, last.preHeap, last.s))
    => (/\ ElemSet(sets, heap, last.s)
             = ElemSet(last.pre, last.preHeap, last.s) \cup {last.v}
        /\ sets[last.s].Usage = last.pre[last.s].Usage + 1)

(* -------------------------------- C17 ---------------------------------- *)
\* the capacity the growth path is said to give
GrownCapacity(capacity) == IF 2 * capacity > 1 THEN 2 * capacity ELSE 1

\* C17: CSet_Insert of a value not in a proper set keeps Capacity when
\* Usage + 1 < Capacity; otherwise, malloc not failing, it returns true and
\* the new Capacity is max(1, 2 * old Capacity), old Capacity 0 included.
C17_GrowthDoublesCapacity ==
    (/\ last.op = "Insert"
     /\ ProperOrdered(last.pre, last.preHeap, last.s)
     /\ last.v \notin ElemSet(last.pre, last.preHeap, last.s))
    => IF last.pre[last.s].Usage + 1 < last.pre[last.s].Capacity
       THEN sets[last.s].Capacity = last.pre[last.s].Capacity
       ELSE ~last.failed
            => (/\ last.ret
                /\ sets[last.s].Capacity = GrownCapacity(last.pre[last.s].Capacity))

(* -------------------------------- C18 ---------------------------------- *)
\* C18: in every state reached by init, insert, remove, intersection,
\* symmetric difference and copy calls, every set has Usage <= Capacity, and
\* Usage < Capacity when Capacity > 0 (one FILLER cell at least remains).
C18_SpareCellRemains ==
    \A s \in Live :
        /\ sets[s].Usage <= sets[s].Capacity
        /\ (sets[s].Capacity > 0) => (sets[s].Usage < sets[s].Capacity)

(* -------------------------------- C19 ---------------------------------- *)
\* C19: FILLER (INT32_MIN) is never an element: in every reachable state,
\* those after a CSet_Insert called with Value == INT32_MIN included, no cell
\* of Data[0 .. Usage-1] holds FILLER, so Usage counts real elements only.
C19_FillerNeverElement ==
    \A s \in Live : FILLER \notin ElemSet(sets, heap, s)

====
